---- MODULE Spec2Model ----
(***************************************************************************)
(* Ensemble sweep of pages/01_Ensemble_CSV.py: the script validates the    *)
(* query parameters, expands the three sweep ranges into cases, evaluates  *)
(* every case with run_case on a ThreadPoolExecutor, collects the results  *)
(* with as_completed and aggregates them (best row, raw rows, Pareto).     *)
(*                                                                         *)
(* Capacities, costs and renewable percentages are small integers; an      *)
(* optional value (Python None or a value) is the empty or the one-element *)
(* sequence; a message or status string is the sequence of its words.      *)
(***************************************************************************)
EXTENDS Integers, Sequences, FiniteSets, TLC

\* ------------------------------------------------------------- bounds
MaxStop  == 2    \* largest solar_stop offered
MaxStep  == 1    \* largest solar_step offered
MaxConc  == 2    \* largest max_conc offered
MaxCost  == 2    \* LCOE values the cost model returns: 1..MaxCost
MaxRen   == 2    \* largest renewable percentage the energy mix returns
MaxLimit == 1    \* largest limit offered

\* ------------------------------------------------------------- inputs
Loads       == {0, 1}
SolarSteps  == -1..MaxStep
BessSteps   == {0, 1}
GenSteps    == {0, 1}
SolarStarts == {-1, 0}
SolarStops  == {0, MaxStop}
BessRanges  == {<<-1, 0>>, <<0, 0>>, <<0, 1>>}    \* (bess_start, bess_stop)
GenStops    == {0, 1}
ConcInputs  == {0, 1, MaxConc}
LimitInputs == {0, MaxLimit}
Costs       == 1..MaxCost
Rens        == {1, MaxRen}

lat      == 31
lon      == -102
gen_type == "Gas Engine"

None == <<>>
Some(v) == <<v>>

VARIABLES
    dc_load,
    solar_start, solar_stop, solar_step,
    bess_start, bess_stop, bess_step,
    gen_start, gen_stop, gen_step,
    max_conc, limit_rows,
    pc,            \* position of the script (main thread)
    error,         \* what st.error showed, or the uncaught exception
    solar_vals, bess_vals, gen_vals,
    cases,
    threads,       \* worker threads of the executor
    work_queue,    \* the executor's FIFO of submitted futures
    futs,          \* the futures of the submitted cases
    wpc, wcase,    \* each worker's position in run_case and its future
    finished, pending, waiter,   \* state of cf.as_completed
    results,
    cache,         \* keys held by lru_cache of solar_ac_cached
    fetch_calls,   \* calls of get_solar_ac_dataframe
    fetch_stored,  \* calls of get_solar_ac_dataframe that returned
    sim_calls,     \* calls of simulate_system
    raised,        \* (future, exception) for every exception a collaborator raised
    best_row, raw_print_df, pareto_df

params == <<dc_load, solar_start, solar_stop, solar_step,
            bess_start, bess_stop, bess_step,
            gen_start, gen_stop, gen_step, max_conc, limit_rows>>
sweep   == <<solar_vals, bess_vals, gen_vals, cases>>
pool    == <<threads, work_queue, futs, wpc, wcase>>
collect == <<finished, pending, waiter, results>>
collab  == <<cache, fetch_calls, fetch_stored, sim_calls, raised>>
outputs == <<best_row, raw_print_df, pareto_df>>
vars    == <<params, pc, error, sweep, pool, collect, collab, outputs>>

\* ------------------------------------------------------------- helpers
Min(a, b) == IF a <= b THEN a ELSE b

\* Python range(start, stop, step) as a list; step = 0 raises ValueError in
\* Python and is handled where range is called.
RECURSIVE range_inclusive(_, _, _)
range_inclusive(start, stop, step) ==
    IF step > 0
    THEN IF start > stop THEN <<>>
         ELSE <<start>> \o range_inclusive(start + step, stop, step)
    ELSE <<>>

RECURSIVE range(_, _, _)
range(start, stop, step) ==
    IF step > 0
    THEN IF start >= stop THEN <<>>
         ELSE <<start>> \o range(start + step, stop, step)
    ELSE IF step < 0
    THEN IF start <= stop THEN <<>>
         ELSE <<start>> \o range(start + step, stop, step)
    ELSE <<>>

Case(s, b, g) ==
    [lat |-> lat, long |-> lon,
     solar_pv_capacity_mw |-> s,
     bess_max_power_mw |-> b,
     generator_capacity_mw |-> g,
     generator_type |-> gen_type,
     datacenter_load_mw |-> dc_load]

\* A slip: zip instead of itertools.product.
product_zip(a, b, c) ==
    [k \in 1..Min(Len(a), Min(Len(b), Len(c))) |-> <<a[k], b[k], c[k]>>]

\* itertools.product(a, b, c): the last list varies fastest.
product(a, b, c) ==
    [k \in 1..(Len(a) * Len(b) * Len(c)) |->
        <<a[((k - 1) \div (Len(b) * Len(c))) + 1],
          b[(((k - 1) \div Len(c)) % Len(b)) + 1],
          c[((k - 1) % Len(c)) + 1]>>]

BuildCaseList(sv, bv, gv) ==
    LET p == product(sv, bv, gv)
    IN  [k \in 1..Len(p) |-> Case(p[k][1], p[k][2], p[k][3])]

\* ------------------------------------------------------------- validation
\* A slip: the load check written with < instead of <=.
validation_errors_load_lt ==
    (IF dc_load < 0 THEN <<"datacenter_load_mw must be > 0">> ELSE <<>>)
    \o (IF solar_step <= 0 THEN <<"solar_step must be > 0">> ELSE <<>>)
    \o (IF bess_step <= 0 THEN <<"bess_step must be > 0">> ELSE <<>>)
    \o (IF gen_step <= 0 THEN <<"gen_step must be > 0">> ELSE <<>>)

validation_errors ==
    (IF dc_load <= 0 THEN <<"datacenter_load_mw must be > 0">> ELSE <<>>)
    \o (IF solar_step <= 0 THEN <<"solar_step must be > 0">> ELSE <<>>)
    \o (IF bess_step <= 0 THEN <<"bess_step must be > 0">> ELSE <<>>)
    \o (IF gen_step <= 0 THEN <<"gen_step must be > 0">> ELSE <<>>)

\* A slip: the storage check left out.
validate_case_inputs_no_bess(case) ==
    IF case.datacenter_load_mw <= 0
    THEN <<"invalid:", "datacenter_load_mw", "<=", "0">>
    ELSE IF case.solar_pv_capacity_mw < 0
    THEN <<"invalid:", "solar_pv_capacity_mw", "<", "0">>
    ELSE IF case.generator_capacity_mw < 0
    THEN <<"invalid:", "generator_capacity_mw", "<", "0">>
    ELSE <<>>

\* utils.validate_case_inputs: the empty string (no words) when valid.
validate_case_inputs(case) ==
    IF case.datacenter_load_mw <= 0
    THEN <<"invalid:", "datacenter_load_mw", "<=", "0">>
    ELSE IF case.solar_pv_capacity_mw < 0
    THEN <<"invalid:", "solar_pv_capacity_mw", "<", "0">>
    ELSE IF case.bess_max_power_mw < 0
    THEN <<"invalid:", "bess_max_power_mw", "<", "0">>
    ELSE IF case.generator_capacity_mw < 0
    THEN <<"invalid:", "generator_capacity_mw", "<", "0">>
    ELSE <<>>

\* ------------------------------------------------------------- run_case
Row(case, spec, lcoe, ren, status) ==
    [lat |-> case.lat, long |-> case.long,
     solar_pv_capacity_mw |-> case.solar_pv_capacity_mw,
     bess_max_power_mw |-> case.bess_max_power_mw,
     generator_capacity_mw |-> case.generator_capacity_mw,
     generator_type |-> case.generator_type,
     datacenter_load_mw |-> case.datacenter_load_mw,
     system_spec |-> spec,
     lcoe |-> lcoe,
     renewable_percentage |-> ren,
     status |-> status]

CaseOf(row) ==
    [lat |-> row.lat, long |-> row.long,
     solar_pv_capacity_mw |-> row.solar_pv_capacity_mw,
     bess_max_power_mw |-> row.bess_max_power_mw,
     generator_capacity_mw |-> row.generator_capacity_mw,
     generator_type |-> row.generator_type,
     datacenter_load_mw |-> row.datacenter_load_mw]

\* A slip: an error row that reports a cost of 0 instead of None.
ErrorRow_zero_cost(case, status) == Row(case, None, Some(0), None, status)

ErrorRow(case, status) == Row(case, None, None, None, status)

system_spec(case) ==
    <<case.solar_pv_capacity_mw, "MW_PV_", case.bess_max_power_mw, "MW_BESS_",
      case.generator_capacity_mw, "MW_", "GasEngine">>

SuccessRow(case, lcoe, ren) ==
    Row(case, Some(system_spec(case)), Some(lcoe), Some(ren), <<"success">>)

\* What a call of run_case ends with: a returned row or a raised exception.
Returned(row) == [kind |-> "returned", row |-> Some(row), exc |-> None]
Raised(exc)   == [kind |-> "raised", row |-> None, exc |-> Some(exc)]

\* str.lower() on the words of a message.
lower_word(w) ==
    CASE w = "Zero"     -> "zero"
      [] w = "Energy"   -> "energy"
      [] w = "Lifetime" -> "lifetime"
      [] OTHER          -> w
lower(msg) == [k \in 1..Len(msg) |-> lower_word(msg[k])]
In(w, msg) == \E k \in 1..Len(msg) : msg[k] = w

\* The exceptions the collaborators raise: subclasses of Exception.
Excs ==
    { [type |-> "ValueError",   msg |-> <<"Zero", "lifetime", "energy">>],
      [type |-> "ValueError",   msg |-> <<"bad", "capacity">>],
      [type |-> "ValueError",   msg |-> <<"zero", "energy", "price">>],
      [type |-> "RuntimeError", msg |-> <<"boom">>] }

\* A slip: only "except ValueError", without the catch-all clause.
Except_ValueError_only(case, exc) ==
    IF exc.type = "ValueError"
    THEN Returned(ErrorRow(case, <<"error:">> \o exc.msg))
    ELSE Raised(exc)

\* The except clauses of run_case.
Except(case, exc) ==
    IF exc.type = "ValueError"
    THEN LET error_msg == lower(exc.msg)
             status == IF In("zero", error_msg)
                          /\ (In("energy", error_msg) \/ In("lifetime", error_msg))
                       THEN <<"error:", "zero", "energy">>
                       ELSE <<"error:">> \o exc.msg
         IN  Returned(ErrorRow(case, status))
    ELSE Returned(ErrorRow(case, <<"error:">> \o exc.msg))

\* ------------------------------------------------------------- collaborators
FetchOutcomes ==
    {[kind |-> "ok"]} \cup {[kind |-> "raise", exc |-> e] : e \in {x \in Excs : x.type = "RuntimeError"}}

SimOutcomes ==
    {[kind |-> "ok", lcoe |-> c, ren |-> r] : c \in Costs, r \in Rens}
    \cup {[kind |-> "raise", exc |-> e] : e \in Excs}

CacheKey(case) == <<case.lat, case.long>>

\* A slip: solar_ac_cached without its lru_cache decorator.
cache_hit_never(key) == FALSE

\* lru_cache: the key is held.
cache_hit(key) == key \in cache

\* ------------------------------------------------------------- executor
\* A slip: one thread per case.
max_workers_per_case == Len(cases)

\* A slip: a value below 1 silently clamped to one worker.
max_workers_clamped == IF max_conc < 1 THEN 1 ELSE max_conc

\* ThreadPoolExecutor(max_workers=max_conc)
max_workers == max_conc

NewFuture == [state |-> "PENDING", outcome |-> None]

\* A slip: every case submitted twice.
submitted_twice(n) == [k \in 1..(2 * n) |-> ((k - 1) % n) + 1]

\* [ex.submit(run_case, c) for c in cases]: one work item per case, in order.
submitted(n) == [k \in 1..n |-> k]

\* A slip: leaving the loop as soon as no finished future is at hand.
as_completed_nothing_ready == finished = {} /\ waiter = <<>>

\* cf.as_completed is exhausted: every future has been yielded.
as_completed_exhausted == finished = {} /\ pending = {} /\ waiter = <<>>

\* ------------------------------------------------------------- aggregation
\* raw_df[raw_df["status"] == "success"]: the index labels kept.
succ(raw_df) == {i \in 1..Len(raw_df) : raw_df[i].status = <<"success">>}

\* A slip: the test of succ.empty left out.
empty_never(raw_df, idx) == FALSE

\* DataFrame.empty of raw_df restricted to the labels idx.
empty(raw_df, idx) == idx = {}

\* A slip: idxmax() in place of idxmin().
idxmax(raw_df, idx) ==
    CHOOSE i \in idx :
        /\ \A j \in idx : raw_df[i].lcoe[1] >= raw_df[j].lcoe[1]
        /\ \A j \in idx : raw_df[j].lcoe[1] = raw_df[i].lcoe[1] => i <= j

\* A slip: the first success row instead of the cheapest.
idxfirst(raw_df, idx) == CHOOSE i \in idx : \A j \in idx : i <= j

\* Series.idxmin(): the label of the first occurrence of the minimum.
idxmin(raw_df, idx) ==
    CHOOSE i \in idx :
        /\ \A j \in idx : raw_df[i].lcoe[1] <= raw_df[j].lcoe[1]
        /\ \A j \in idx : raw_df[j].lcoe[1] = raw_df[i].lcoe[1] => i <= j

\* A slip: head(n) applied whatever n is, so that limit=0 prints nothing.
raw_print_head_always(raw_df, n) == SubSeq(raw_df, 1, Min(n, Len(raw_df)))

\* DataFrame.head(n) if n > 0 else the frame.
raw_print(raw_df, n) ==
    IF n > 0 THEN SubSeq(raw_df, 1, Min(n, Len(raw_df))) ELSE raw_df

\* core.pareto_frontier.process_ensemble_data, after the skyline sweep of the
\* design: successes sorted by cost ascending, ties by descending renewable
\* percentage (stable); a row is kept iff it is the first or its renewable
\* percentage exceeds the running maximum.
\* A slip: sorting by cost alone.
SortsBefore_cost_only(a, b) == a.lcoe[1] < b.lcoe[1]

SortsBefore(a, b) ==
    \/ a.lcoe[1] < b.lcoe[1]
    \/ a.lcoe[1] = b.lcoe[1] /\ a.renewable_percentage[1] > b.renewable_percentage[1]

RECURSIVE InsertSorted(_, _)
InsertSorted(row, sorted) ==
    IF sorted = <<>> THEN <<row>>
    ELSE IF SortsBefore(row, Head(sorted)) THEN <<row>> \o sorted
    ELSE <<Head(sorted)>> \o InsertSorted(row, Tail(sorted))

RECURSIVE SortByCost(_)
SortByCost(rows) ==
    IF rows = <<>> THEN <<>>
    ELSE InsertSorted(rows[Len(rows)], SortByCost(SubSeq(rows, 1, Len(rows) - 1)))

RECURSIVE Skyline(_, _)
Skyline(sorted, running_max) ==
    IF sorted = <<>> THEN <<>>
    ELSE LET r == Head(sorted)
         IN  IF running_max = None \/ r.renewable_percentage[1] > running_max[1]
             THEN <<r>> \o Skyline(Tail(sorted), Some(r.renewable_percentage[1]))
             ELSE Skyline(Tail(sorted), running_max)

process_ensemble_data(rows) ==
    Skyline(SortByCost(SelectSeq(rows, LAMBDA r : r.status = <<"success">>)), None)

\* ------------------------------------------------------------- initial state
Init ==
    /\ dc_load \in Loads
    /\ solar_start \in SolarStarts /\ solar_stop \in SolarStops /\ solar_step \in SolarSteps
    /\ \E r \in BessRanges : bess_start = r[1] /\ bess_stop = r[2]
    /\ bess_step \in BessSteps
    /\ gen_start = 0 /\ gen_stop \in GenStops /\ gen_step \in GenSteps
    /\ max_conc \in ConcInputs
    /\ limit_rows \in LimitInputs
    /\ pc = "validate"
    /\ error = None
    /\ solar_vals = <<>> /\ bess_vals = <<>> /\ gen_vals = <<>>
    /\ cases = <<>>
    /\ threads = 0
    /\ work_queue = <<>>
    /\ futs = <<>>
    /\ wpc = <<>> /\ wcase = <<>>
    /\ finished = {} /\ pending = {} /\ waiter = <<>>
    /\ results = <<>>
    /\ cache = {}
    /\ fetch_calls = 0 /\ fetch_stored = 0 /\ sim_calls = 0
    /\ raised = {}
    /\ best_row = None /\ raw_print_df = None /\ pareto_df = None

\* ------------------------------------------------------------- main thread
\* lines 124-137: validate inputs, st.error and st.stop on any error.
ValidateInputs ==
    /\ pc = "validate"
    /\ IF validation_errors # <<>>
       THEN pc' = "stopped" /\ error' = Some("Input validation failed")
       ELSE pc' = "build" /\ UNCHANGED error
    /\ UNCHANGED <<params, sweep, pool, collect, collab, outputs>>

\* lines 139-158: expand the ranges, stop on an empty sweep, build the cases.
BuildCases ==
    /\ pc = "build"
    /\ IF solar_step = 0 \/ bess_step = 0 \/ gen_step = 0
       THEN \* range() arg 3 must not be zero
            /\ pc' = "crashed" /\ error' = Some("ValueError")
            /\ UNCHANGED sweep
       ELSE LET sv == range(solar_start, solar_stop, solar_step)
                bv == range(bess_start, bess_stop, bess_step)
                gv == range(gen_start, gen_stop, gen_step)
            IN  /\ solar_vals' = sv /\ bess_vals' = bv /\ gen_vals' = gv
                /\ IF sv = <<>> \/ bv = <<>> \/ gv = <<>>
                   THEN pc' = "stopped" /\ error' = Some("Empty sweep")
                        /\ UNCHANGED cases
                   ELSE pc' = "run" /\ cases' = BuildCaseList(sv, bv, gv)
                        /\ UNCHANGED error
    /\ UNCHANGED <<params, pool, collect, collab, outputs>>

\* lines 233-235: create the executor and submit every case.
SubmitAll ==
    /\ pc = "run"
    /\ IF max_workers <= 0
       THEN \* ThreadPoolExecutor: max_workers must be greater than 0
            /\ pc' = "crashed" /\ error' = Some("ValueError")
            /\ UNCHANGED pool
       ELSE /\ pc' = "submitted"
            /\ threads' = Min(Len(cases), max_workers)
            /\ futs' = [i \in 1..Len(cases) |-> NewFuture]
            /\ work_queue' = submitted(Len(cases))
            /\ wpc' = [w \in 1..Min(Len(cases), max_workers) |-> "idle"]
            /\ wcase' = [w \in 1..Min(Len(cases), max_workers) |-> 0]
            /\ UNCHANGED error
    /\ UNCHANGED <<params, sweep, collect, collab, outputs>>

\* line 235: cf.as_completed(fs) starts: the futures already finished are
\* yielded first, in the iteration order of a set; the others as they finish.
AsCompleted ==
    /\ pc = "submitted"
    /\ pc' = "collect"
    /\ finished' = {i \in 1..Len(futs) : futs[i].state = "FINISHED"}
    /\ pending' = {i \in 1..Len(futs) : futs[i].state # "FINISHED"}
    /\ waiter' = <<>>
    /\ UNCHANGED <<params, error, sweep, pool, results, collab, outputs>>

\* line 236: results.append(fut.result()) for the next future yielded.
Take(i) ==
    LET o == futs[i].outcome[1]
    IN  IF o.kind = "returned"
        THEN results' = Append(results, o.row[1]) /\ UNCHANGED <<pc, error>>
        ELSE pc' = "crashed" /\ error' = Some(o.exc[1].type) /\ UNCHANGED results

Collect ==
    /\ pc = "collect"
    /\ IF finished # {}
       THEN \E i \in finished :
                /\ finished' = finished \ {i}
                /\ Take(i)
                /\ UNCHANGED <<pending, waiter>>
       ELSE /\ waiter # <<>>
            /\ waiter' = Tail(waiter)
            /\ pending' = pending \ {Head(waiter)}
            /\ Take(Head(waiter))
            /\ UNCHANGED finished
    /\ UNCHANGED <<params, sweep, pool, collab, outputs>>

\* lines 239-272: the loop is over; raw rows, best row, Pareto table.
Aggregate ==
    /\ pc = "collect"
    /\ as_completed_exhausted
    /\ LET raw_df == results
       IN  IF empty(raw_df, succ(raw_df))
           THEN /\ pc' = "stopped" /\ error' = Some("All cases failed")
                /\ UNCHANGED outputs
           ELSE IF succ(raw_df) = {}
           THEN \* idxmin of an empty Series raises ValueError
                /\ pc' = "crashed" /\ error' = Some("ValueError")
                /\ UNCHANGED outputs
           ELSE /\ pc' = "done"
                /\ best_row' = Some(raw_df[idxmin(raw_df, succ(raw_df))])
                /\ raw_print_df' = Some(raw_print(raw_df, limit_rows))
                /\ pareto_df' = Some(process_ensemble_data(results))
                /\ UNCHANGED error
    /\ UNCHANGED <<params, sweep, pool, collect, collab>>

\* ------------------------------------------------------------- workers
\* A future finishes: set_result, and the waiter of as_completed is told.
Finish(w, o) ==
    /\ futs' = [futs EXCEPT ![wcase[w]] = [state |-> "FINISHED", outcome |-> Some(o)]]
    /\ waiter' = IF pc = "collect" /\ wcase[w] \in pending
                 THEN Append(waiter, wcase[w]) ELSE waiter
    /\ wpc' = [wpc EXCEPT ![w] = "idle"]
    /\ wcase' = [wcase EXCEPT ![w] = 0]

\* A worker takes the next work item and runs run_case up to its first
\* blocking call: validation (lines 163-165), then the cache (line 168).
StartCase(w) ==
    /\ wpc[w] = "idle"
    /\ \A v \in 1..(w - 1) : wpc[v] # "idle"    \* idle workers are interchangeable
    /\ work_queue # <<>>
    /\ LET i == Head(work_queue)
           case == cases[i]
           validation_error == validate_case_inputs(case)
       IN  /\ work_queue' = Tail(work_queue)
           /\ IF validation_error # <<>>
              THEN /\ futs' = [futs EXCEPT ![i] =
                          [state |-> "FINISHED",
                           outcome |-> Some(Returned(ErrorRow(case, <<"error:">> \o validation_error)))]]
                   /\ waiter' = IF pc = "collect" /\ i \in pending
                                THEN Append(waiter, i) ELSE waiter
                   /\ UNCHANGED <<wpc, wcase, collab>>
              ELSE /\ futs' = [futs EXCEPT ![i] = [state |-> "RUNNING", outcome |-> None]]
                   /\ wcase' = [wcase EXCEPT ![w] = i]
                   /\ UNCHANGED waiter
                   /\ IF cache_hit(CacheKey(case))
                      THEN /\ wpc' = [wpc EXCEPT ![w] = "simulate"]
                           /\ sim_calls' = sim_calls + 1
                           /\ UNCHANGED <<cache, fetch_calls, fetch_stored, raised>>
                      ELSE /\ wpc' = [wpc EXCEPT ![w] = "fetch"]
                           /\ fetch_calls' = fetch_calls + 1
                           /\ UNCHANGED <<cache, fetch_stored, sim_calls, raised>>
    /\ UNCHANGED <<params, pc, error, sweep, threads, finished, pending, results, outputs>>

\* get_solar_ac_dataframe returns (lru_cache stores the value) or raises.
FetchReturn(w) ==
    /\ wpc[w] = "fetch"
    /\ \E o \in FetchOutcomes :
        IF o.kind = "ok"
        THEN /\ cache' = cache \cup {CacheKey(cases[wcase[w]])}
             /\ fetch_stored' = fetch_stored + 1
             /\ sim_calls' = sim_calls + 1
             /\ wpc' = [wpc EXCEPT ![w] = "simulate"]
             /\ UNCHANGED <<futs, wcase, waiter, fetch_calls, raised>>
        ELSE /\ Finish(w, Except(cases[wcase[w]], o.exc))
             /\ raised' = raised \cup {<<wcase[w], o.exc>>}
             /\ UNCHANGED <<cache, fetch_calls, fetch_stored, sim_calls>>
    /\ UNCHANGED <<params, pc, error, sweep, threads, work_queue, finished, pending, results, outputs>>

\* lines 169-219: simulate_system, DataCenter, calculate_lcoe and
\* calculate_energy_mix return, or one of them raises.
SimulateReturn(w) ==
    /\ wpc[w] = "simulate"
    /\ \E o \in SimOutcomes :
        IF o.kind = "ok"
        THEN /\ Finish(w, Returned(SuccessRow(cases[wcase[w]], o.lcoe, o.ren)))
             /\ UNCHANGED raised
        ELSE /\ Finish(w, Except(cases[wcase[w]], o.exc))
             /\ raised' = raised \cup {<<wcase[w], o.exc>>}
    /\ UNCHANGED <<params, pc, error, sweep, threads, work_queue, finished, pending, results,
                   cache, fetch_calls, fetch_stored, sim_calls, outputs>>

Next ==
    \/ ValidateInputs
    \/ BuildCases
    \/ SubmitAll
    \/ AsCompleted
    \/ Collect
    \/ Aggregate
    \/ \E w \in 1..threads : StartCase(w)
    \/ \E w \in 1..threads : FetchReturn(w)
    \/ \E w \in 1..threads : SimulateReturn(w)

Spec == Init /\ [][Next]_vars

\* The script's thread and the pool's workers keep running, and every
\* collaborator call returns or raises: some enabled step is always taken.
LiveSpec == Spec /\ WF_vars(Next)

\* ------------------------------------------------------------- properties
RowsOf(seq) == {seq[k] : k \in 1..Len(seq)}

\* The run went through the whole collection loop.
RunComplete ==
    \/ pc = "done"
    \/ pc = "stopped" /\ error = Some("All cases failed")

Running == {i \in 1..Len(futs) : futs[i].state = "RUNNING"}

NoCollaboratorCalled == fetch_calls = 0 /\ fetch_stored = 0 /\ sim_calls = 0

NothingProduced ==
    /\ results = <<>>
    /\ best_row = None /\ raw_print_df = None /\ pareto_df = None

IsSuccess(row) == row.status = <<"success">>

\* C1: when the run completes, the result table holds exactly one row per
\* generated case: its length is |solar_vals| * |bess_vals| * |gen_vals| and
\* every combination of the three ranges appears exactly once.
C1_OneResultPerCase ==
    RunComplete =>
        /\ Len(results) = Len(solar_vals) * Len(bess_vals) * Len(gen_vals)
        /\ \A s \in RowsOf(solar_vals), b \in RowsOf(bess_vals), g \in RowsOf(gen_vals) :
              Cardinality({k \in 1..Len(results) : CaseOf(results[k]) = Case(s, b, g)}) = 1

C1_Witness ==
    /\ pc = "done"
    /\ Len(results) = 3
    /\ max_conc = 2
    /\ \E k \in 1..3 : IsSuccess(results[k])
    /\ \E k \in 1..3 : results[k].status = <<"error:", "boom">>
    /\ CaseOf(results[1]) = cases[3]

\* C2: no exception leaves run_case or the collection loop, whatever the
\* collaborators raise, and every submitted case still gets its own row.
C2_IsolationTotal ==
    /\ \A i \in 1..Len(futs) :
          futs[i].state = "FINISHED" => futs[i].outcome[1].kind = "returned"
    /\ pc = "crashed" => futs = <<>>
    /\ RunComplete =>
          \A i \in 1..Len(cases) : \E k \in 1..Len(results) : CaseOf(results[k]) = cases[i]

C2_Witness ==
    /\ RunComplete
    /\ \E k \in 1..Len(results) : results[k].status = <<"error:", "boom">>
    /\ \E k \in 1..Len(results) : results[k].status = <<"error:", "zero", "energy">>
    /\ \E k \in 1..Len(results) : results[k].status[2] = "invalid:"

\* C3: a row has status success iff it carries both lcoe and
\* renewable_percentage; a row of any other status carries neither.
C3_Row(row) ==
    /\ IsSuccess(row) <=> (row.lcoe # None /\ row.renewable_percentage # None)
    /\ ~IsSuccess(row) => (row.lcoe = None /\ row.renewable_percentage = None)

C3_SuccessIffObjectives ==
    /\ \A i \in 1..Len(futs) :
          (futs[i].state = "FINISHED" /\ futs[i].outcome[1].kind = "returned")
              => C3_Row(futs[i].outcome[1].row[1])
    /\ \A k \in 1..Len(results) : C3_Row(results[k])

C3_Witness ==
    /\ Len(results) = 3
    /\ \E k \in 1..3 : IsSuccess(results[k])
    /\ \E k \in 1..3 : results[k].status = <<"error:", "bad", "capacity">>
    /\ \E k \in 1..3 : results[k].status[2] = "invalid:"

\* C4: whenever the completed table holds a success row, the best row is a
\* success row of the table whose lcoe is at most that of every success row.
C4_BestIsCheapestSuccess ==
    (RunComplete /\ succ(results) # {}) =>
        /\ pc = "done"
        /\ best_row # None
        /\ \E k \in succ(results) : best_row[1] = results[k]
        /\ \A k \in succ(results) : best_row[1].lcoe[1] <= results[k].lcoe[1]

C4_Witness ==
    /\ pc = "done"
    /\ Len(results) = 3
    /\ ~IsSuccess(results[1])
    /\ IsSuccess(results[2]) /\ IsSuccess(results[3])
    /\ results[3].lcoe[1] < results[2].lcoe[1]
    /\ best_row[1] = results[3]

\* C5: among the success rows that share the minimum lcoe, the best row is the
\* one generated first (solar outermost, generator innermost), whatever the
\* order in which the workers finished.
GenIndex(row) == CHOOSE i \in 1..Len(cases) : cases[i] = CaseOf(row)

C5_TieBreakByGenerationOrder ==
    pc = "done" =>
        \A k \in succ(results) :
            results[k].lcoe[1] = best_row[1].lcoe[1]
                => GenIndex(best_row[1]) <= GenIndex(results[k])

\* C6: the Pareto table holds success rows only, and no row of it dominates
\* another (cost <=, renewable >=, one of them strict).
Dominates(a, b) ==
    /\ a.lcoe[1] <= b.lcoe[1]
    /\ a.renewable_percentage[1] >= b.renewable_percentage[1]
    /\ (a.lcoe[1] < b.lcoe[1] \/ a.renewable_percentage[1] > b.renewable_percentage[1])

C6_FrontierNotDominated ==
    pc = "done" =>
        /\ \A k \in 1..Len(pareto_df[1]) : IsSuccess(pareto_df[1][k])
        /\ \A j, k \in 1..Len(pareto_df[1]) : ~Dominates(pareto_df[1][j], pareto_df[1][k])

C6_Witness ==
    /\ pc = "done"
    /\ Len(results) = 3
    /\ ~IsSuccess(results[1])
    /\ IsSuccess(results[2]) /\ IsSuccess(results[3])
    /\ results[2].lcoe[1] = results[3].lcoe[1]
    /\ results[2].renewable_percentage[1] < results[3].renewable_percentage[1]
    /\ pareto_df[1] = <<results[3]>>

\* C7 as stated: get_solar_ac_dataframe is called at most once in a run.
C7_FetchAtMostOnce == fetch_calls <= 1

\* C7 as amended: once a call of get_solar_ac_dataframe has returned and the
\* cache holds the key, no lookup calls it again; the calls that return are
\* those of lookups begun before that, at most max_conc of them.
C7_HitAfterStore ==
    /\ [](fetch_stored <= max_conc)
    /\ [][cache # {} => fetch_calls' = fetch_calls]_vars

C7_Witness ==
    /\ max_conc = 2
    /\ fetch_calls = 1 /\ fetch_stored = 1
    /\ sim_calls = 2

\* C8: at no time are more than max_conc evaluations executing.
C8_ConcurrencyBound ==
    /\ Cardinality(Running) <= max_conc
    /\ Cardinality({w \in 1..threads : wpc[w] # "idle"}) <= max_conc

C8_Witness ==
    /\ max_conc = 2
    /\ Len(cases) > max_conc
    /\ Cardinality(Running) = 2

\* C9: with a non-positive load or step the run stops with the validation
\* error before any case exists, any evaluation starts or any collaborator
\* is called, and produces no table, best row or Pareto table.
C9_ValidationAbort ==
    (dc_load <= 0 \/ solar_step <= 0 \/ bess_step <= 0 \/ gen_step <= 0) =>
        /\ pc \in {"validate", "stopped"}
        /\ pc = "stopped" => error = Some("Input validation failed")
        /\ solar_vals = <<>> /\ bess_vals = <<>> /\ gen_vals = <<>>
        /\ cases = <<>> /\ futs = <<>> /\ threads = 0
        /\ NoCollaboratorCalled
        /\ NothingProduced

C9_Witness ==
    /\ pc = "stopped"
    /\ error = Some("Input validation failed")
    /\ dc_load > 0 /\ solar_step > 0 /\ bess_step > 0 /\ gen_step <= 0
    /\ solar_start < solar_stop /\ bess_start < bess_stop /\ gen_start < gen_stop

\* C10: with positive load and steps and one of the half-open ranges
\* [start, stop) empty, the run stops with the empty-sweep error: no case, no
\* evaluation, no collaborator call, no aggregation.
C10_EmptySweepAbort ==
    (/\ dc_load > 0 /\ solar_step > 0 /\ bess_step > 0 /\ gen_step > 0
     /\ (solar_start >= solar_stop \/ bess_start >= bess_stop \/ gen_start >= gen_stop)) =>
        /\ pc \in {"validate", "build", "stopped"}
        /\ pc = "stopped" => error = Some("Empty sweep")
        /\ cases = <<>> /\ futs = <<>> /\ threads = 0
        /\ NoCollaboratorCalled
        /\ NothingProduced

C10_Witness ==
    /\ pc = "stopped"
    /\ error = Some("Empty sweep")
    /\ solar_vals # <<>> /\ bess_vals # <<>> /\ gen_vals = <<>>

\* Every case has been collected into results.
AllCollected == cases # <<>> /\ Len(results) = Len(cases)

\* C11: when every range is non-empty and no case succeeds, the script
\* reports "All cases failed" and returns no best row, raw rows or Pareto
\* table; the rows keep their own error statuses, and a best row is never an
\* error row.
C11_AllFailedReported ==
    /\ (AllCollected /\ succ(results) = {} /\ pc # "collect") =>
          /\ pc = "stopped" /\ error = Some("All cases failed")
          /\ best_row = None /\ raw_print_df = None /\ pareto_df = None
          /\ \A k \in 1..Len(results) : results[k].status[1] = "error:"
    /\ best_row # None => IsSuccess(best_row[1])

C11_Witness ==
    /\ pc = "stopped" /\ error = Some("All cases failed")
    /\ Len(results) = 3
    /\ \E k \in 1..3 : results[k].status = <<"error:", "boom">>
    /\ \E k \in 1..3 : results[k].status = <<"error:", "zero", "energy">>

\* C12: with max_conc < 1 no evaluation is started and no collaborator is
\* called: the run ends when the executor is created.
C12_NoWorkBelowOneWorker ==
    max_conc < 1 =>
        /\ pc \in {"validate", "build", "run", "stopped", "crashed"}
        /\ futs = <<>> /\ work_queue = <<>> /\ threads = 0
        /\ NoCollaboratorCalled /\ raised = {}
        /\ NothingProduced

C12_Witness ==
    /\ max_conc < 1
    /\ pc = "crashed"
    /\ Len(cases) = 3

\* C13: a ValueError whose message speaks of zero lifetime energy gives the
\* status "error: zero energy" and not the status made of its message; every
\* other exception gives "error: " followed by its message as raised.
ZeroEnergyErrors ==
    {e \in Excs : /\ e.type = "ValueError"
                  /\ In("zero", lower(e.msg))
                  /\ In("lifetime", lower(e.msg))
                  /\ In("energy", lower(e.msg))}

C13_Classification ==
    \A p \in raised :
        LET row == futs[p[1]].outcome[1].row[1]
        IN  /\ futs[p[1]].state = "FINISHED"
            /\ futs[p[1]].outcome[1].kind = "returned"
            /\ IF p[2] \in ZeroEnergyErrors
               THEN /\ row.status = <<"error:", "zero", "energy">>
                    /\ row.status # <<"error:">> \o p[2].msg
               ELSE row.status = <<"error:">> \o p[2].msg

\* C14: a case with bess_max_power_mw < 0 is never run past validation: its
\* row has an "invalid" status and no spec, lcoe or renewable percentage, no
\* worker holds it during a collaborator call, and a run made of such cases
\* calls no collaborator.
C14_NegativeStorageInvalid ==
    /\ \A i \in 1..Len(futs) :
          cases[i].bess_max_power_mw < 0 =>
              /\ futs[i].state \in {"PENDING", "FINISHED"}
              /\ \A w \in 1..threads : wcase[w] # i
              /\ \A p \in raised : p[1] # i
              /\ futs[i].state = "FINISHED" =>
                    LET row == futs[i].outcome[1].row[1]
                    IN  /\ futs[i].outcome[1].kind = "returned"
                        /\ row.status[1] = "error:" /\ row.status[2] = "invalid:"
                        /\ row.system_spec = None
                        /\ row.lcoe = None /\ row.renewable_percentage = None
    /\ (\A i \in 1..Len(cases) : cases[i].bess_max_power_mw < 0) => NoCollaboratorCalled

C14_Witness ==
    /\ \E i \in 1..Len(futs) :
          /\ cases[i].bess_max_power_mw < 0
          /\ cases[i].solar_pv_capacity_mw > 0
          /\ futs[i].state = "FINISHED"
    /\ pc = "stopped" /\ error = Some("All cases failed")

\* C15: limit only cuts the raw rows printed, to the first limit rows when
\* limit > 0 and to all rows otherwise; the best row is the cheapest success
\* of the whole table and the Pareto table covers every success of the
\* whole table.
Covers(p, r) ==
    /\ p.lcoe[1] <= r.lcoe[1]
    /\ p.renewable_percentage[1] >= r.renewable_percentage[1]

C15_LimitOnlyTruncates ==
    pc = "done" =>
        /\ Len(raw_print_df[1]) =
              IF limit_rows > 0 /\ limit_rows < Len(results) THEN limit_rows ELSE Len(results)
        /\ \A k \in 1..Len(raw_print_df[1]) : raw_print_df[1][k] = results[k]
        /\ \E k \in succ(results) : best_row[1] = results[k]
        /\ \A k \in succ(results) : best_row[1].lcoe[1] <= results[k].lcoe[1]
        /\ RowsOf(pareto_df[1]) \subseteq RowsOf(results)
        /\ \A k \in succ(results) : \E p \in RowsOf(pareto_df[1]) : Covers(p, results[k])

C15_Witness ==
    /\ pc = "done"
    /\ limit_rows = 1
    /\ Len(results) = 3
    /\ Len(raw_print_df[1]) = 1
    /\ ~IsSuccess(results[1])
    /\ best_row[1] = results[3]
    /\ pareto_df[1] = <<results[3], results[2]>>

\* C16: the collection loop ends only when every case has its result, so the
\* aggregation sees the whole table, and every run whose cases were submitted
\* goes on to completion with all results collected.
C16_BlocksUntilComplete ==
    /\ [](RunComplete =>
            /\ Len(results) = Len(cases)
            /\ \A i \in 1..Len(futs) : futs[i].state = "FINISHED"
            /\ \A i \in 1..Len(cases) : \E k \in 1..Len(results) : CaseOf(results[k]) = cases[i])
    /\ (pc = "submitted" ~> RunComplete)

C16_Witness ==
    /\ pc = "collect"
    /\ finished = {} /\ waiter = <<>> /\ pending # {}
    /\ results # <<>>
    /\ Running # {}

\* C17: the Pareto table holds exactly the successes that no other success
\* dominates.
C17_SkylineIsParetoFrontier ==
    pc = "done" =>
        /\ RowsOf(pareto_df[1]) \subseteq {results[k] : k \in succ(results)}
        /\ \A k \in succ(results) :
              results[k] \in RowsOf(pareto_df[1])
                  <=> ~\E j \in succ(results) : Dominates(results[j], results[k])

\* C18: the Pareto table is the one computed from the results taken in the
\* order the cases were generated, whatever order they were collected in.
GenOrdered ==
    [i \in 1..Len(cases) |->
        results[CHOOSE k \in 1..Len(results) : CaseOf(results[k]) = cases[i]]]

C18_ParetoOrderIndependent ==
    pc = "done" => pareto_df[1] = process_ensemble_data(GenOrdered)

\* C19: each case is submitted once, and once its evaluation has started it
\* only finishes: a finished future keeps its outcome, is never queued or
\* run again, and its row is recorded at most once.
C19_Queue ==
    \A i \in 1..Len(futs) :
        /\ Cardinality({k \in 1..Len(work_queue) : work_queue[k] = i})
              = IF futs[i].state = "PENDING" THEN 1 ELSE 0
        /\ Cardinality({w \in 1..threads : wcase[w] = i})
              = IF futs[i].state = "RUNNING" THEN 1 ELSE 0
        /\ Cardinality({k \in 1..Len(results) : CaseOf(results[k]) = cases[i]}) <= 1

C19_NoRetries ==
    /\ [](pc \in {"submitted", "collect", "done", "stopped"} => Len(futs) = Len(cases))
    /\ []C19_Queue
    /\ [][\A i \in 1..Len(futs) :
            /\ futs[i].state = "RUNNING" => futs'[i].state \in {"RUNNING", "FINISHED"}
            /\ futs[i].state = "FINISHED" => futs'[i] = futs[i]]_vars

C19_Witness ==
    /\ \E i \in 1..Len(futs) :
          /\ futs[i].state = "FINISHED"
          /\ ~IsSuccess(futs[i].outcome[1].row[1])
          /\ <<i, [type |-> "RuntimeError", msg |-> <<"boom">>]>> \in raised
          /\ \E k \in 1..Len(results) : results[k] = futs[i].outcome[1].row[1]
    /\ Running # {}

\* C20: whenever a best row is returned, the Pareto table is non-empty and its
\* first row has the best row's cost.
C20_FrontierStartsAtBestCost ==
    best_row # None =>
        /\ pareto_df # None
        /\ pareto_df[1] # <<>>
        /\ pareto_df[1][1].lcoe = best_row[1].lcoe

C20_Witness ==
    /\ pc = "done"
    /\ Len(results) = 3
    /\ pareto_df[1][1] # best_row[1]
    /\ pareto_df[1][1].lcoe = best_row[1].lcoe

====
